---- MODULE Spec2Model ----
(***************************************************************************)
(* SoftDesk REST API: projects, contributors (memberships), issues and     *)
(* comments, with the permission classes that guard each route.            *)
(*                                                                         *)
(* One action per HTTP handler.  Each action models the whole request:     *)
(* rest_framework's dispatch order (has_permission of every permission     *)
(* class, then the handler, whose get_object() answers 404 before          *)
(* has_object_permission answers 403, then serializer validation, then     *)
(* the save) and every model-level side effect (Project.save's owner row,  *)
(* the on_delete rules of the foreign keys).                               *)
(***************************************************************************)
EXTENDS Integers, Sequences, FiniteSets, TLC

\* ---------------------------------------------------------------- bounds
NumUsers == 2
MaxProjectId == 2
MaxContributorId == 3
MaxIssueId == 1
MaxCommentId == 1
NumCalls == 2

\* ------------------------------------------------------------- constants
NULL == 0
CONTRIBUTOR == "CTR"
OWNER == "OWN"
PERMISSION_CHOICES == {CONTRIBUTOR, OWNER}
SAFE_METHODS == {"GET", "HEAD", "OPTIONS"}

HTTP_200_OK == 200
HTTP_201_CREATED == 201
HTTP_204_NO_CONTENT == 204
HTTP_400_BAD_REQUEST == 400
HTTP_401_UNAUTHORIZED == 401
HTTP_403_FORBIDDEN == 403
HTTP_404_NOT_FOUND == 404
HTTP_405_METHOD_NOT_ALLOWED == 405
\* the answer when an exception escapes the view
HTTP_500_SERVER_ERROR == 500

\* ------------------------------------------------------- request inputs
Users == 1..NumUsers
BadUserId == NumUsers + 1
ProjectPks == 1..MaxProjectId
ContributorPks == 1..MaxContributorId
IssuePks == 1..MaxIssueId
CommentPks == 1..MaxCommentId
Titles == {"t1", "t2"}
TitleInputs == Titles \cup {""}
Descriptions == {"d1"}
DescriptionInputs == Descriptions \cup {""}
NewDescriptionInputs == {"d2", ""}
PermissionInputs == PERMISSION_CHOICES \cup {"bad"}
RoleInputs == {"dev"}
IssueTitleInputs == {"t1", ""}
AssigneeInputs == Users \cup {NULL, BadUserId}
AuthorInputs == Users \cup {NULL, BadUserId}
\* a body with "user_id": null; NULL as the user_id of a request is a body
\* without the field
ExplicitNull == -1
MemberInputs == Users \cup {ExplicitNull}
TagInputs == {"bug", "wrong"}
StatusInputs == {"done", "wrong"}
PriorityInputs == {"high", "wrong"}

VARIABLES projects, contributors, issues, comments, nextId, last, pre, calls

vars == <<projects, contributors, issues, comments, nextId, last, pre, calls>>

\* --------------------------------------------------------------- helpers
SetMax(S) == CHOOSE x \in S : \A y \in S : y <= x
SetMin(S) == CHOOSE x \in S : \A y \in S : x <= y

RECURSIVE SortDesc(_)
SortDesc(S) == IF S = {} THEN <<>>
               ELSE <<SetMax(S)>> \o SortDesc(S \ {SetMax(S)})

RECURSIVE SortAsc(_)
SortAsc(S) == IF S = {} THEN <<>>
              ELSE <<SetMin(S)>> \o SortAsc(S \ {SetMin(S)})

\* the request that was served last and the answer it got: the route and
\* method, request.user, the ids in the path, the status code, the
\* exception that escaped the view (if any), the ids in the answer and
\* the fields of the request body
Response(op, method, user, project_pk, issue_pk, pk, status, exc, res, body) ==
    [op |-> op, method |-> method, user |-> user, project_pk |-> project_pk,
     issue_pk |-> issue_pk, pk |-> pk, status |-> status, exc |-> exc,
     result |-> res, body |-> body]

\* ------------------------------------------------------------ the tables
\* Contributor.objects.filter(project_id=p): ids of the rows of project p
ContributorsOf(p) ==
    {c \in DOMAIN contributors : contributors[c].project_id = p}
\* Contributor.objects.filter(project_id=p, user_id=u)
ContributorRows(p, u) ==
    {c \in DOMAIN contributors :
        contributors[c].project_id = p /\ contributors[c].user_id = u}
IssuesOf(p) == {i \in DOMAIN issues : issues[i].project_id = p}
CommentsOf(i) == {c \in DOMAIN comments : comments[c].issue_id = i}

\* the four tables, as the request that is being served finds them
Database ==
    [projects |-> projects, contributors |-> contributors,
     issues |-> issues, comments |-> comments]

\* the calls of Project.save that can run at the same time, and a call
\* that is not running
Calls == 1..NumCalls
Idle ==
    [pc |-> "idle", op |-> "none", project_id |-> NULL,
     author_user_id |-> NULL, count |-> 0]

Init ==
    /\ projects = <<>>
    /\ contributors = <<>>
    /\ issues = <<>>
    /\ comments = <<>>
    /\ nextId = [project |-> 1, contributor |-> 1, issue |-> 1, comment |-> 1]
    /\ last = Response("none", "none", NULL, NULL, NULL, NULL, 0,
                       "none", <<>>, <<>>)
    /\ pre = [projects |-> <<>>, contributors |-> <<>>, issues |-> <<>>,
              comments |-> <<>>]
    /\ calls = [r \in Calls |-> Idle]

\* A database with two projects, one by each user, two issues and two
\* comments: user 1's issue is in project 1 and carries comment 1; the
\* second issue and the second comment, user 2's, are in either project
\* and on either issue.
InitTree ==
    /\ projects = (1 :> [author_user_id |-> 1, title |-> "t1"]) @@
                  (2 :> [author_user_id |-> 2, title |-> "t1"])
    /\ contributors =
           (1 :> [project_id |-> 1, user_id |-> 1, permission |-> OWNER,
                  role |-> "Owner"]) @@
           (2 :> [project_id |-> 2, user_id |-> 2, permission |-> OWNER,
                  role |-> "Owner"])
    /\ \E p \in {1, 2}, i \in {1, 2} :
           /\ issues =
                  (1 :> [project_id |-> 1, author_user_id |-> 1,
                         assignee_user_id |-> 1, title |-> "t1",
                         tag |-> "", status |-> "", priority |-> ""]) @@
                  (2 :> [project_id |-> p, author_user_id |-> 2,
                         assignee_user_id |-> 2, title |-> "t1",
                         tag |-> "", status |-> "", priority |-> ""])
           /\ comments =
                  (1 :> [issue_id |-> 1, author_user_id |-> 1,
                         description |-> "d1"]) @@
                  (2 :> [issue_id |-> i, author_user_id |-> 2,
                         description |-> "d1"])
    /\ nextId = [project |-> 3, contributor |-> 3, issue |-> 3, comment |-> 3]
    /\ last = Response("none", "none", NULL, NULL, NULL, NULL, 0,
                       "none", <<>>, <<>>)
    /\ pre = Database
    /\ calls = [r \in Calls |-> Idle]

\* ---------------------------------------------------- permission classes
\* IsOwnerOrReadOnly.has_object_permission; every model it is applied to
\* has the attribute author_user_id
IsOwnerOrReadOnly_has_object_permission(method, user, author_user_id) ==
    IF method \in SAFE_METHODS THEN TRUE
    ELSE author_user_id = user

\* Each of the three checks below builds the list of the user ids of the
\* rows it reads with row.user_id.id; a row whose user is None makes that
\* raise AttributeError, which no code catches (the request is answered
\* 500).  The checks answer "True", "False" or "AttributeError".

\* isProjectOwner.has_object_permission: obj is a Contributor row
isProjectOwner_has_object_permission(method, user, obj_project_id) ==
    IF method \in SAFE_METHODS THEN "True"
    ELSE LET project_owner ==
                 {c \in ContributorsOf(obj_project_id) :
                     contributors[c].permission = "OWN"}
             owner_id == {contributors[c].user_id : c \in project_owner}
         IN IF NULL \in owner_id THEN "AttributeError"
            ELSE IF user \in owner_id THEN "True"
            ELSE "False"

\* isProjectOwner defines no has_permission: BasePermission's answers True
isProjectOwner_has_permission(user, project_pk) == TRUE

\* isProjectContributor.has_permission: rows of the project in the path
isProjectContributor_has_permission(user, project_pk) ==
    LET contributor_id ==
            {contributors[c].user_id : c \in ContributorsOf(project_pk)}
    IN IF NULL \in contributor_id THEN "AttributeError"
       ELSE IF user \in contributor_id THEN "True"
       ELSE "False"

\* isProjectContributor.has_object_permission: rows of obj.project_id
isProjectContributor_has_object_permission(user, obj_project_id) ==
    LET contributor_id ==
            {contributors[c].user_id : c \in ContributorsOf(obj_project_id)}
    IN IF NULL \in contributor_id THEN "AttributeError"
       ELSE IF user \in contributor_id THEN "True"
       ELSE "False"

\* ------------------------------------------------------------- querysets
\* no join on the contributor rows
ProjectViewSet_get_queryset_all(user) == DOMAIN projects

\* ProjectViewSet.get_queryset: projects joined to a row of the user
ProjectViewSet_get_queryset(user) ==
    {p \in DOMAIN projects : ContributorRows(p, user) # {}}

\* order_by('-id') over the rows of the join: one entry per contributor
\* row, the project of the row, highest project id first
RECURSIVE OrderByProjectDesc(_)
OrderByProjectDesc(rows) ==
    IF rows = {} THEN <<>>
    ELSE LET c == CHOOSE x \in rows : \A y \in rows :
                      contributors[y].project_id <= contributors[x].project_id
         IN <<contributors[c].project_id>> \o OrderByProjectDesc(rows \ {c})

\* the list starts with the oldest project
ProjectViewSet_list_oldest_first(user) ==
    SortAsc({p \in DOMAIN projects : ContributorRows(p, user) # {}})

\* ProjectViewSet.list: the queryset is the join of Project with the
\* contributor rows of the user, so a project comes once per row
ProjectViewSet_list(user) ==
    OrderByProjectDesc({c \in DOMAIN contributors :
                           /\ contributors[c].user_id = user
                           /\ contributors[c].project_id \in DOMAIN projects})

\* ContributorViewSet.get_queryset
ContributorViewSet_get_queryset(project_pk) == ContributorsOf(project_pk)

\* the issues of every project
IssueViewSet_get_queryset_all(project_pk) == DOMAIN issues

\* IssueViewSet.get_queryset
IssueViewSet_get_queryset(project_pk) == IssuesOf(project_pk)

\* CommentViewSet.get_queryset
CommentViewSet_get_queryset(issue_pk) == CommentsOf(issue_pk)

\* ------------------------------------------------------------ model layer
\* Project.save, after super().save(): the owner row is inserted when the
\* (project, author) count is 0.  Yields the contributor table and the
\* next contributor id.
Project_save_without_count(project_id, author_user_id) ==
    [contributors |-> contributors @@
         (nextId.contributor :>
            [project_id |-> project_id, user_id |-> author_user_id,
             permission |-> "OWN", role |-> "Owner"]),
     nextId |-> nextId.contributor + 1]

Project_save(project_id, author_user_id) ==
    IF Cardinality(ContributorRows(project_id, author_user_id)) = 0
    THEN [contributors |-> contributors @@
              (nextId.contributor :>
                 [project_id |-> project_id, user_id |-> author_user_id,
                  permission |-> "OWN", role |-> "Owner"]),
          nextId |-> nextId.contributor + 1]
    ELSE [contributors |-> contributors, nextId |-> nextId.contributor]

\* the unique constraint not enforced
UniqueTogetherConflict_off(project_id, user_id) == FALSE

\* Contributor.Meta.unique_together: would inserting (p, u) conflict; a
\* row without a user conflicts with none (NULL is distinct from NULL in a
\* unique index)
UniqueTogetherConflict(project_id, user_id) ==
    /\ user_id # NULL
    /\ ContributorRows(project_id, user_id) # {}

\* Deleting a project: Issue.project_id is CASCADE, Comment.issue_id is
\* CASCADE, Contributor.project_id is SET_NULL
IssuesAfterProjectDelete(p) ==
    [i \in DOMAIN issues \ IssuesOf(p) |-> issues[i]]

\* the comments of a deleted issue stay
CommentsAfterIssuesDelete_keep(gone) == comments

CommentsAfterIssuesDelete(gone) ==
    [c \in {x \in DOMAIN comments : comments[x].issue_id \notin gone}
        |-> comments[c]]

\* the rows keep pointing at the deleted project
ContributorsAfterProjectDelete_keep(p) == contributors

ContributorsAfterProjectDelete(p) ==
    [c \in DOMAIN contributors |->
        IF contributors[c].project_id = p
        THEN [contributors[c] EXCEPT !.project_id = NULL]
        ELSE contributors[c]]

\* a request that is answered without touching the database
Answer(op, method, u, project_pk, issue_pk, pk, status, exc, result, body) ==
    /\ pre' = Database
    /\ UNCHANGED calls
    /\ last' = Response(op, method, u, project_pk, issue_pk, pk, status,
                        exc, result, body)
    /\ UNCHANGED <<projects, contributors, issues, comments, nextId>>

\* ------------------------------------------------------- ProjectViewSet
\* Every principal is an authenticated user (IsAuthenticated holds).  The
\* title stands for the fields of the payload: "" is a payload that the
\* serializer rejects.

\* GET /projects/
ListProjects(u) ==
    Answer("listProjects", "GET", u, NULL, NULL, NULL, HTTP_200_OK, "none",
           ProjectViewSet_list(u), <<>>)

\* the author of the body is kept when the body names one
ProjectViewSet_perform_create_from_body(user, author_user_id) ==
    IF author_user_id # NULL THEN author_user_id ELSE user

\* ProjectViewSet.perform_create: the keyword of serializer.save() replaces
\* the author_user_id of the validated data
ProjectViewSet_perform_create(user, author_user_id) == user

\* ProjectSerializer: title is required; author_user_id is writable and
\* optional, and when given it is a primary key of User
ProjectSerializer_is_valid(title, author_user_id) ==
    /\ title # ""
    /\ author_user_id # NULL => author_user_id \in Users

\* POST /projects/ ; author_user_id = NULL is a body without the field
CreateProject(u, title, author_user_id) ==
    IF ~ProjectSerializer_is_valid(title, author_user_id)
    THEN Answer("createProject", "POST", u, NULL, NULL, NULL,
                HTTP_400_BAD_REQUEST, "none", <<>>,
                <<title, author_user_id>>)
    ELSE LET id == nextId.project
             author == ProjectViewSet_perform_create(u, author_user_id) IN
         /\ nextId.project <= MaxProjectId
         /\ nextId.contributor <= MaxContributorId
         /\ projects' = projects @@
                (id :> [author_user_id |-> author, title |-> title])
         /\ contributors' = Project_save(id, author).contributors
         /\ nextId' = [nextId EXCEPT
                          !.project = id + 1,
                          !.contributor = Project_save(id, author).nextId]
         /\ pre' = Database
         /\ UNCHANGED calls
         /\ last' = Response("createProject", "POST", u, NULL, NULL, id,
                             HTTP_201_CREATED, "none", <<>>,
                             <<title, author_user_id>>)
         /\ UNCHANGED <<issues, comments>>

\* GET /projects/{pk}/
RetrieveProject(u, pk) ==
    IF pk \notin ProjectViewSet_get_queryset(u)
    THEN Answer("retrieveProject", "GET", u, NULL, NULL, pk,
                HTTP_404_NOT_FOUND, "none", <<>>, <<>>)
    ELSE IF ~IsOwnerOrReadOnly_has_object_permission(
                 "GET", u, projects[pk].author_user_id)
    THEN Answer("retrieveProject", "GET", u, NULL, NULL, pk,
                HTTP_403_FORBIDDEN, "none", <<>>, <<>>)
    ELSE Answer("retrieveProject", "GET", u, NULL, NULL, pk,
                HTTP_200_OK, "none", <<pk>>, <<>>)

\* PUT /projects/{pk}/ : ProjectDetailSerializer, author_user_id read-only;
\* serializer.save() runs Project.save
\* a field that the serializer declares read-only (read_only_fields, or a
\* SerializerMethodField) is dropped from the body: the stored value stays
Serializer_read_only_field_writable(given, stored) ==
    IF given = NULL THEN stored ELSE given

Serializer_read_only_field(given, stored) == stored

UpdateProject(u, pk, title, author_user_id) ==
    LET body == <<title, author_user_id>> IN
    IF pk \notin ProjectViewSet_get_queryset(u)
    THEN Answer("updateProject", "PUT", u, NULL, NULL, pk,
                HTTP_404_NOT_FOUND, "none", <<>>, body)
    ELSE IF ~IsOwnerOrReadOnly_has_object_permission(
                 "PUT", u, projects[pk].author_user_id)
    THEN Answer("updateProject", "PUT", u, NULL, NULL, pk,
                HTTP_403_FORBIDDEN, "none", <<>>, body)
    ELSE IF title = ""
    THEN Answer("updateProject", "PUT", u, NULL, NULL, pk,
                HTTP_400_BAD_REQUEST, "none", <<>>, body)
    ELSE LET saved == Project_save(pk, projects[pk].author_user_id) IN
         /\ saved.nextId <= MaxContributorId + 1
         /\ projects' = [projects EXCEPT
                ![pk].title = title,
                ![pk].author_user_id =
                    Serializer_read_only_field(
                        author_user_id, projects[pk].author_user_id)]
         /\ contributors' = saved.contributors
         /\ nextId' = [nextId EXCEPT !.contributor = saved.nextId]
         /\ pre' = Database
         /\ UNCHANGED calls
         /\ last' = Response("updateProject", "PUT", u, NULL, NULL, pk,
                             HTTP_200_OK, "none", <<>>, body)
         /\ UNCHANGED <<issues, comments>>

\* DELETE /projects/{pk}/
DestroyProject(u, pk) ==
    IF pk \notin ProjectViewSet_get_queryset(u)
    THEN Answer("destroyProject", "DELETE", u, NULL, NULL, pk,
                HTTP_404_NOT_FOUND, "none", <<>>, <<>>)
    ELSE IF ~IsOwnerOrReadOnly_has_object_permission(
                 "DELETE", u, projects[pk].author_user_id)
    THEN Answer("destroyProject", "DELETE", u, NULL, NULL, pk,
                HTTP_403_FORBIDDEN, "none", <<>>, <<>>)
    ELSE /\ projects' = [p \in DOMAIN projects \ {pk} |-> projects[p]]
         /\ issues' = IssuesAfterProjectDelete(pk)
         /\ comments' = CommentsAfterIssuesDelete(IssuesOf(pk))
         /\ contributors' = ContributorsAfterProjectDelete(pk)
         /\ pre' = Database
         /\ UNCHANGED calls
         /\ last' = Response("destroyProject", "DELETE", u, NULL, NULL, pk,
                             HTTP_204_NO_CONTENT, "none", <<>>, <<>>)
         /\ UNCHANGED nextId

\* project.save() called on an existing row (a direct model save)
SaveProject(pk) ==
    /\ pk \in DOMAIN projects
    /\ LET saved == Project_save(pk, projects[pk].author_user_id) IN
       /\ saved.nextId <= MaxContributorId + 1
       /\ contributors' = saved.contributors
       /\ nextId' = [nextId EXCEPT !.contributor = saved.nextId]
    /\ pre' = Database
    /\ UNCHANGED calls
    /\ last' = Response("saveProject", "none", projects[pk].author_user_id,
                        NULL, NULL, pk, 0, "none", <<>>, <<>>)
    /\ UNCHANGED <<projects, issues, comments>>

\* ---- Project.save, statement by statement.  Nothing in the model, the
\* serializer or the view opens a transaction around the statements, so
\* each one is a write or a read of the shared database on its own and
\* the statements of two calls interleave.

\* POST /projects/ up to super().save(): the project row is inserted
ProjectViewSet_create_begin(r, u, title) ==
    /\ calls[r].pc = "idle"
    /\ ProjectSerializer_is_valid(title, NULL)
    /\ nextId.project <= MaxProjectId
    /\ projects' = projects @@
           (nextId.project :> [author_user_id |-> u, title |-> title])
    /\ nextId' = [nextId EXCEPT !.project = nextId.project + 1]
    /\ calls' = [calls EXCEPT ![r] =
                    [pc |-> "saved", op |-> "createProject",
                     project_id |-> nextId.project, author_user_id |-> u,
                     count |-> 0]]
    /\ UNCHANGED <<contributors, issues, comments, last, pre>>

\* project.save() of a stored project up to super().save(): the row is
\* written again with the values it has
Project_save_super(r, pk) ==
    /\ calls[r].pc = "idle"
    /\ pk \in DOMAIN projects
    /\ calls' = [calls EXCEPT ![r] =
                    [pc |-> "saved", op |-> "saveProject",
                     project_id |-> pk,
                     author_user_id |-> projects[pk].author_user_id,
                     count |-> 0]]
    /\ UNCHANGED <<projects, contributors, issues, comments, nextId,
                   last, pre>>

\* Contributor.objects.filter(project_id=self.id,
\*                            user_id=self.author_user_id).count()
Project_save_count(r) ==
    /\ calls[r].pc = "saved"
    /\ calls' = [calls EXCEPT
                    ![r].pc = "counted",
                    ![r].count = Cardinality(ContributorRows(
                        calls[r].project_id, calls[r].author_user_id))]
    /\ UNCHANGED <<projects, contributors, issues, comments, nextId,
                   last, pre>>

\* the end of a call: the answer of POST /projects/, or the return of
\* project.save()
Project_save_return(r, status, exc) ==
    /\ calls' = [calls EXCEPT ![r] = Idle]
    /\ pre' = Database
    /\ last' = Response(calls[r].op,
                        IF calls[r].op = "createProject" THEN "POST"
                        ELSE "none",
                        calls[r].author_user_id, NULL, NULL,
                        calls[r].project_id, status, exc, <<>>, <<>>)

\* if the count was 0: Contributor.objects.create(...), which the
\* unique_together constraint of the table refuses with an IntegrityError
\* when a row of the pair was written since the count
Project_save_create(r) ==
    /\ calls[r].pc = "counted"
    /\ LET ok == IF calls[r].op = "createProject" THEN HTTP_201_CREATED
                 ELSE 0 IN
       IF calls[r].count # 0
       THEN /\ Project_save_return(r, ok, "none")
            /\ UNCHANGED <<projects, contributors, issues, comments, nextId>>
       ELSE IF UniqueTogetherConflict(calls[r].project_id,
                                      calls[r].author_user_id)
       THEN /\ Project_save_return(r, HTTP_500_SERVER_ERROR,
                                   "IntegrityError")
            /\ UNCHANGED <<projects, contributors, issues, comments, nextId>>
       ELSE /\ nextId.contributor <= MaxContributorId
            /\ contributors' = contributors @@
                   (nextId.contributor :>
                      [project_id |-> calls[r].project_id,
                       user_id |-> calls[r].author_user_id,
                       permission |-> "OWN", role |-> "Owner"])
            /\ nextId' = [nextId EXCEPT
                             !.contributor = nextId.contributor + 1]
            /\ Project_save_return(r, ok, "none")
            /\ UNCHANGED <<projects, issues, comments>>

\* a call that stops after super().save() and before the row of the
\* author is written (the count or the insert raises a database error,
\* or the worker is stopped): what was written stays written
Project_save_fail(r) ==
    /\ calls[r].pc \in {"saved", "counted"}
    /\ Project_save_return(r, HTTP_500_SERVER_ERROR, "DatabaseError")
    /\ UNCHANGED <<projects, contributors, issues, comments, nextId>>

\* --------------------------------------------------- ContributorViewSet
\* GET /projects/{project_pk}/users/ : get_serializer_context runs
\* Project.objects.get, which raises DoesNotExist out of the view
ListContributors(u, project_pk) ==
    IF ~isProjectOwner_has_permission(u, project_pk)
    THEN Answer("listContributors", "GET", u, project_pk, NULL, NULL,
                HTTP_403_FORBIDDEN, "none", <<>>, <<>>)
    ELSE IF project_pk \notin DOMAIN projects
    THEN Answer("listContributors", "GET", u, project_pk, NULL, NULL,
                HTTP_500_SERVER_ERROR, "DoesNotExist", <<>>, <<>>)
    ELSE Answer("listContributors", "GET", u, project_pk, NULL, NULL,
                HTTP_200_OK, "none",
                SortAsc(ContributorViewSet_get_queryset(project_pk)), <<>>)

\* ContributorSerializer: user_id is a primary key of User or an explicit
\* null (the column is null=True, so the field allows null), and it is
\* required: user_id is in Meta.unique_together with project_id, both are
\* in Meta.fields and user_id has no default, so a body without user_id
\* (NULL) is refused; permission is one of PERMISSION_CHOICES (the model's
\* choices, validate_permission)
ContributorSerializer_is_valid(user_id, permission) ==
    /\ user_id \in Users \cup {ExplicitNull}
    /\ permission \in PERMISSION_CHOICES

\* the validated user_id: the user named, None for an explicit null
ContributorSerializer_validated_user_id(user_id) ==
    IF user_id = ExplicitNull THEN NULL ELSE user_id

\* POST /projects/{project_pk}/users/ : ContributorViewSet.create, then
\* ContributorSerializer (user_id required, a primary key of User or an
\* explicit null, permission one of PERMISSION_CHOICES), then the insert
\* under unique_together
CreateContributor(u, project_pk, user_id, permission, role) ==
    IF ~isProjectOwner_has_permission(u, project_pk)
    THEN Answer("createContributor", "POST", u, project_pk, NULL, NULL,
                HTTP_403_FORBIDDEN, "none", <<>>, <<user_id, permission, role>>)
    ELSE IF project_pk \notin DOMAIN projects
    THEN Answer("createContributor", "POST", u, project_pk, NULL, NULL,
                HTTP_404_NOT_FOUND, "none", <<>>, <<user_id, permission, role>>)
    ELSE IF ~ContributorSerializer_is_valid(user_id, permission)
    THEN Answer("createContributor", "POST", u, project_pk, NULL, NULL,
                HTTP_400_BAD_REQUEST, "none", <<>>,
                <<user_id, permission, role>>)
    ELSE IF UniqueTogetherConflict(project_pk,
                ContributorSerializer_validated_user_id(user_id))
    THEN Answer("createContributor", "POST", u, project_pk, NULL, NULL,
                HTTP_500_SERVER_ERROR, "IntegrityError", <<user_id>>,
                <<user_id, permission, role>>)
    ELSE LET id == nextId.contributor IN
         /\ id <= MaxContributorId
         /\ contributors' = contributors @@
                (id :> [project_id |-> project_pk,
                        user_id |->
                            ContributorSerializer_validated_user_id(user_id),
                        permission |-> permission, role |-> role])
         /\ nextId' = [nextId EXCEPT !.contributor = id + 1]
         /\ pre' = Database
         /\ UNCHANGED calls
         /\ last' = Response("createContributor", "POST", u, project_pk,
                             NULL, id, HTTP_201_CREATED, "none",
                             <<ContributorSerializer_validated_user_id(user_id)>>,
                             <<user_id, permission, role>>)
         /\ UNCHANGED <<projects, issues, comments>>

\* the row is deleted before the object permission is looked at
DestroyContributor_delete_first(u, project_pk, pk) ==
    IF pk \notin ContributorViewSet_get_queryset(project_pk)
    THEN Answer("destroyContributor", "DELETE", u, project_pk, NULL, pk,
                HTTP_404_NOT_FOUND, "none", <<>>, <<>>)
    ELSE /\ contributors' =
                [c \in DOMAIN contributors \ {pk} |-> contributors[c]]
         /\ pre' = Database
         /\ UNCHANGED calls
         /\ last' = Response("destroyContributor", "DELETE", u, project_pk,
                             NULL, pk,
                             IF isProjectOwner_has_object_permission(
                                    "DELETE", u, contributors[pk].project_id)
                                 = "True"
                             THEN HTTP_204_NO_CONTENT
                             ELSE HTTP_403_FORBIDDEN,
                             "none", <<>>, <<>>)
         /\ UNCHANGED <<projects, issues, comments, nextId>>

\* DELETE /projects/{project_pk}/users/{pk}/
DestroyContributor(u, project_pk, pk) ==
    IF ~isProjectOwner_has_permission(u, project_pk)
    THEN Answer("destroyContributor", "DELETE", u, project_pk, NULL, pk,
                HTTP_403_FORBIDDEN, "none", <<>>, <<>>)
    ELSE IF pk \notin ContributorViewSet_get_queryset(project_pk)
    THEN Answer("destroyContributor", "DELETE", u, project_pk, NULL, pk,
                HTTP_404_NOT_FOUND, "none", <<>>, <<>>)
    ELSE IF isProjectOwner_has_object_permission(
                "DELETE", u, contributors[pk].project_id) = "AttributeError"
    THEN Answer("destroyContributor", "DELETE", u, project_pk, NULL, pk,
                HTTP_500_SERVER_ERROR, "AttributeError", <<>>, <<>>)
    ELSE IF isProjectOwner_has_object_permission(
                "DELETE", u, contributors[pk].project_id) = "False"
    THEN Answer("destroyContributor", "DELETE", u, project_pk, NULL, pk,
                HTTP_403_FORBIDDEN, "none", <<>>, <<>>)
    ELSE /\ contributors' =
                [c \in DOMAIN contributors \ {pk} |-> contributors[c]]
         /\ pre' = Database
         /\ UNCHANGED calls
         /\ last' = Response("destroyContributor", "DELETE", u, project_pk,
                             NULL, pk, HTTP_204_NO_CONTENT, "none", <<>>, <<>>)
         /\ UNCHANGED <<projects, issues, comments, nextId>>

\* --------------------------------------------------------- IssueViewSet
\* IssueSerializer: title is required; assignee_user_id, when given, is a
\* primary key of User; validate() wants a contributor row of the project
IssueSerializer_is_valid(project, title, assignee_user_id) ==
    /\ title # ""
    /\ assignee_user_id # NULL => assignee_user_id \in Users
    /\ assignee_user_id # NULL =>
           Cardinality(ContributorRows(project, assignee_user_id)) # 0

\* the assignee is saved as it came in the request
IssueSerializer_validate_as_given(user, assignee_user_id) == assignee_user_id

\* IssueSerializer.validate: the assignee that is saved
IssueSerializer_validate(user, assignee_user_id) ==
    IF assignee_user_id # NULL THEN assignee_user_id ELSE user

\* GET /projects/{project_pk}/issues/
ListIssues(u, project_pk) ==
    IF isProjectContributor_has_permission(u, project_pk)
           = "AttributeError"
    THEN Answer("listIssues", "GET", u, project_pk, NULL, NULL,
                HTTP_500_SERVER_ERROR, "AttributeError", <<>>, <<>>)
    ELSE IF isProjectContributor_has_permission(u, project_pk) = "False"
    THEN Answer("listIssues", "GET", u, project_pk, NULL, NULL,
                HTTP_403_FORBIDDEN, "none", <<>>, <<>>)
    ELSE IF project_pk \notin DOMAIN projects
    THEN Answer("listIssues", "GET", u, project_pk, NULL, NULL,
                HTTP_500_SERVER_ERROR, "DoesNotExist", <<>>, <<>>)
    ELSE Answer("listIssues", "GET", u, project_pk, NULL, NULL,
                HTTP_200_OK, "none",
                SortAsc(IssueViewSet_get_queryset(project_pk)), <<>>)

\* POST /projects/{project_pk}/issues/ : perform_create saves with
\* author_user_id=request.user.  tag, status and priority are CharFields
\* with blank=True and no choices: the serializer takes any text, and ""
\* is a body without the field
CreateIssue(u, project_pk, title, assignee_user_id, tag, status, priority) ==
    LET body == <<title, assignee_user_id, tag, status, priority>> IN
    IF isProjectContributor_has_permission(u, project_pk)
           = "AttributeError"
    THEN Answer("createIssue", "POST", u, project_pk, NULL, NULL,
                HTTP_500_SERVER_ERROR, "AttributeError", <<>>, body)
    ELSE IF isProjectContributor_has_permission(u, project_pk) = "False"
    THEN Answer("createIssue", "POST", u, project_pk, NULL, NULL,
                HTTP_403_FORBIDDEN, "none", <<>>, body)
    ELSE IF project_pk \notin DOMAIN projects
    THEN Answer("createIssue", "POST", u, project_pk, NULL, NULL,
                HTTP_500_SERVER_ERROR, "DoesNotExist", <<>>, body)
    ELSE IF ~IssueSerializer_is_valid(project_pk, title, assignee_user_id)
    THEN Answer("createIssue", "POST", u, project_pk, NULL, NULL,
                HTTP_400_BAD_REQUEST, "none", <<>>, body)
    ELSE LET id == nextId.issue IN
         /\ id <= MaxIssueId
         /\ issues' = issues @@
                (id :> [project_id |-> project_pk, author_user_id |-> u,
                        assignee_user_id |->
                            IssueSerializer_validate(u, assignee_user_id),
                        title |-> title, tag |-> tag, status |-> status,
                        priority |-> priority])
         /\ nextId' = [nextId EXCEPT !.issue = id + 1]
         /\ pre' = Database
         /\ UNCHANGED calls
         /\ last' = Response("createIssue", "POST", u, project_pk, NULL, id,
                             HTTP_201_CREATED, "none", <<>>, body)
         /\ UNCHANGED <<projects, contributors, comments>>

\* PUT /projects/{project_pk}/issues/{pk}/
\* tag, status and priority are optional fields of the body ("" is a body
\* without the field, which leaves the stored text); a text in the body
\* is stored as given
UpdateIssue(u, project_pk, pk, title, assignee_user_id, author_user_id, tag, status, priority) ==
    LET body == <<title, assignee_user_id, author_user_id, tag, status,
                  priority>> IN
    IF isProjectContributor_has_permission(u, project_pk)
           = "AttributeError"
    THEN Answer("updateIssue", "PUT", u, project_pk, NULL, pk,
                HTTP_500_SERVER_ERROR, "AttributeError", <<>>, body)
    ELSE IF isProjectContributor_has_permission(u, project_pk) = "False"
    THEN Answer("updateIssue", "PUT", u, project_pk, NULL, pk,
                HTTP_403_FORBIDDEN, "none", <<>>, body)
    ELSE IF pk \notin IssueViewSet_get_queryset(project_pk)
    THEN Answer("updateIssue", "PUT", u, project_pk, NULL, pk,
                HTTP_404_NOT_FOUND, "none", <<>>, body)
    ELSE IF isProjectContributor_has_object_permission(
                    u, issues[pk].project_id) = "AttributeError"
    THEN Answer("updateIssue", "PUT", u, project_pk, NULL, pk,
                HTTP_500_SERVER_ERROR, "AttributeError", <<>>, body)
    ELSE IF \/ isProjectContributor_has_object_permission(
                    u, issues[pk].project_id) = "False"
            \/ ~IsOwnerOrReadOnly_has_object_permission(
                    "PUT", u, issues[pk].author_user_id)
    THEN Answer("updateIssue", "PUT", u, project_pk, NULL, pk,
                HTTP_403_FORBIDDEN, "none", <<>>, body)
    ELSE IF project_pk \notin DOMAIN projects
    THEN Answer("updateIssue", "PUT", u, project_pk, NULL, pk,
                HTTP_500_SERVER_ERROR, "DoesNotExist", <<>>,
                body)
    ELSE IF ~IssueSerializer_is_valid(project_pk, title, assignee_user_id)
    THEN Answer("updateIssue", "PUT", u, project_pk, NULL, pk,
                HTTP_400_BAD_REQUEST, "none", <<>>, body)
    ELSE /\ issues' = [issues EXCEPT
                ![pk].title = title,
                ![pk].author_user_id =
                    Serializer_read_only_field(
                        author_user_id, issues[pk].author_user_id),
                ![pk].project_id = project_pk,
                ![pk].tag = IF tag = "" THEN issues[pk].tag ELSE tag,
                ![pk].status =
                    IF status = "" THEN issues[pk].status ELSE status,
                ![pk].priority =
                    IF priority = "" THEN issues[pk].priority ELSE priority,
                ![pk].assignee_user_id =
                    IssueSerializer_validate(u, assignee_user_id)]
         /\ pre' = Database
         /\ UNCHANGED calls
         /\ last' = Response("updateIssue", "PUT", u, project_pk, NULL, pk,
                             HTTP_200_OK, "none", <<>>,
                             body)
         /\ UNCHANGED <<projects, contributors, comments, nextId>>

\* DELETE /projects/{project_pk}/issues/{pk}/ : Comment.issue_id is CASCADE
DestroyIssue(u, project_pk, pk) ==
    IF isProjectContributor_has_permission(u, project_pk)
           = "AttributeError"
    THEN Answer("destroyIssue", "DELETE", u, project_pk, NULL, pk,
                HTTP_500_SERVER_ERROR, "AttributeError", <<>>, <<>>)
    ELSE IF isProjectContributor_has_permission(u, project_pk) = "False"
    THEN Answer("destroyIssue", "DELETE", u, project_pk, NULL, pk,
                HTTP_403_FORBIDDEN, "none", <<>>, <<>>)
    ELSE IF pk \notin IssueViewSet_get_queryset(project_pk)
    THEN Answer("destroyIssue", "DELETE", u, project_pk, NULL, pk,
                HTTP_404_NOT_FOUND, "none", <<>>, <<>>)
    ELSE IF isProjectContributor_has_object_permission(
                    u, issues[pk].project_id) = "AttributeError"
    THEN Answer("destroyIssue", "DELETE", u, project_pk, NULL, pk,
                HTTP_500_SERVER_ERROR, "AttributeError", <<>>, <<>>)
    ELSE IF \/ isProjectContributor_has_object_permission(
                    u, issues[pk].project_id) = "False"
            \/ ~IsOwnerOrReadOnly_has_object_permission(
                    "DELETE", u, issues[pk].author_user_id)
    THEN Answer("destroyIssue", "DELETE", u, project_pk, NULL, pk,
                HTTP_403_FORBIDDEN, "none", <<>>, <<>>)
    ELSE /\ issues' = [i \in DOMAIN issues \ {pk} |-> issues[i]]
         /\ comments' = CommentsAfterIssuesDelete({pk})
         /\ pre' = Database
         /\ UNCHANGED calls
         /\ last' = Response("destroyIssue", "DELETE", u, project_pk, NULL,
                             pk, HTTP_204_NO_CONTENT, "none", <<>>, <<>>)
         /\ UNCHANGED <<projects, contributors, nextId>>

\* ------------------------------------------------------- CommentViewSet
\* CommentSerializer: description is required (a TextField does not allow
\* blank) and validate_description refuses ''
CommentSerializer_is_valid(description) == description # ""

\* GET /projects/{project_pk}/issues/{issue_pk}/comments/
ListComments(u, project_pk, issue_pk) ==
    IF isProjectContributor_has_permission(u, project_pk)
           = "AttributeError"
    THEN Answer("listComments", "GET", u, project_pk, issue_pk, NULL,
                HTTP_500_SERVER_ERROR, "AttributeError", <<>>, <<>>)
    ELSE IF isProjectContributor_has_permission(u, project_pk) = "False"
    THEN Answer("listComments", "GET", u, project_pk, issue_pk, NULL,
                HTTP_403_FORBIDDEN, "none", <<>>, <<>>)
    ELSE Answer("listComments", "GET", u, project_pk, issue_pk, NULL,
                HTTP_200_OK, "none",
                SortAsc(CommentViewSet_get_queryset(issue_pk)), <<>>)

\* POST /projects/{project_pk}/issues/{issue_pk}/comments/ : the serializer
\* is validated, then perform_create runs Issue.objects.get(id=issue_pk),
\* which raises DoesNotExist out of the view
CreateComment(u, project_pk, issue_pk, description) ==
    IF isProjectContributor_has_permission(u, project_pk)
           = "AttributeError"
    THEN Answer("createComment", "POST", u, project_pk, issue_pk, NULL,
                HTTP_500_SERVER_ERROR, "AttributeError", <<>>, <<description>>)
    ELSE IF isProjectContributor_has_permission(u, project_pk) = "False"
    THEN Answer("createComment", "POST", u, project_pk, issue_pk, NULL,
                HTTP_403_FORBIDDEN, "none", <<>>, <<description>>)
    ELSE IF ~CommentSerializer_is_valid(description)
    THEN Answer("createComment", "POST", u, project_pk, issue_pk, NULL,
                HTTP_400_BAD_REQUEST, "none", <<>>, <<description>>)
    ELSE IF issue_pk \notin DOMAIN issues
    THEN Answer("createComment", "POST", u, project_pk, issue_pk, NULL,
                HTTP_500_SERVER_ERROR, "DoesNotExist", <<>>, <<description>>)
    ELSE LET id == nextId.comment IN
         /\ id <= MaxCommentId
         /\ comments' = comments @@
                (id :> [issue_id |-> issue_pk, author_user_id |-> u,
                        description |-> description])
         /\ nextId' = [nextId EXCEPT !.comment = id + 1]
         /\ pre' = Database
         /\ UNCHANGED calls
         /\ last' = Response("createComment", "POST", u, project_pk,
                             issue_pk, id, HTTP_201_CREATED, "none", <<>>,
                             <<description>>)
         /\ UNCHANGED <<projects, contributors, issues>>

\* The project a comment belongs to.  The Comment class is not part of
\* core/models.py; migration 0007 gives it the fields id, description,
\* created_time, author_user_id and issue_id, and the comment detail routes
\* answer 200 to a member and 403 to a non-author (test_get_comment_detail,
\* test_modify_a_comment): a comment is scoped to its issue, and access to
\* it is gated by membership in the issue's project.
Comment_project_id(pk) == issues[comments[pk].issue_id].project_id

\* GET /projects/{project_pk}/issues/{issue_pk}/comments/{pk}/
RetrieveComment(u, project_pk, issue_pk, pk) ==
    IF isProjectContributor_has_permission(u, project_pk)
           = "AttributeError"
    THEN Answer("retrieveComment", "GET", u, project_pk, issue_pk, pk,
                HTTP_500_SERVER_ERROR, "AttributeError", <<>>, <<>>)
    ELSE IF isProjectContributor_has_permission(u, project_pk) = "False"
    THEN Answer("retrieveComment", "GET", u, project_pk, issue_pk, pk,
                HTTP_403_FORBIDDEN, "none", <<>>, <<>>)
    ELSE IF pk \notin CommentViewSet_get_queryset(issue_pk)
    THEN Answer("retrieveComment", "GET", u, project_pk, issue_pk, pk,
                HTTP_404_NOT_FOUND, "none", <<>>, <<>>)
    ELSE IF isProjectContributor_has_object_permission(
                    u, Comment_project_id(pk)) = "AttributeError"
    THEN Answer("retrieveComment", "GET", u, project_pk, issue_pk, pk,
                HTTP_500_SERVER_ERROR, "AttributeError", <<>>, <<>>)
    ELSE IF \/ isProjectContributor_has_object_permission(
                    u, Comment_project_id(pk)) = "False"
            \/ ~IsOwnerOrReadOnly_has_object_permission(
                    "GET", u, comments[pk].author_user_id)
    THEN Answer("retrieveComment", "GET", u, project_pk, issue_pk, pk,
                HTTP_403_FORBIDDEN, "none", <<>>, <<>>)
    ELSE Answer("retrieveComment", "GET", u, project_pk, issue_pk, pk,
                HTTP_200_OK, "none", <<pk>>, <<>>)

\* PUT /projects/{project_pk}/issues/{issue_pk}/comments/{pk}/ :
\* author_user_id and issue_id are read-only in CommentSerializer
UpdateComment(u, project_pk, issue_pk, pk, description, author_user_id, issue_id) ==
    LET body == <<description, author_user_id, issue_id>> IN
    IF isProjectContributor_has_permission(u, project_pk)
           = "AttributeError"
    THEN Answer("updateComment", "PUT", u, project_pk, issue_pk, pk,
                HTTP_500_SERVER_ERROR, "AttributeError", <<>>, body)
    ELSE IF isProjectContributor_has_permission(u, project_pk) = "False"
    THEN Answer("updateComment", "PUT", u, project_pk, issue_pk, pk,
                HTTP_403_FORBIDDEN, "none", <<>>, body)
    ELSE IF pk \notin CommentViewSet_get_queryset(issue_pk)
    THEN Answer("updateComment", "PUT", u, project_pk, issue_pk, pk,
                HTTP_404_NOT_FOUND, "none", <<>>, body)
    ELSE IF isProjectContributor_has_object_permission(
                    u, Comment_project_id(pk)) = "AttributeError"
    THEN Answer("updateComment", "PUT", u, project_pk, issue_pk, pk,
                HTTP_500_SERVER_ERROR, "AttributeError", <<>>, body)
    ELSE IF \/ isProjectContributor_has_object_permission(
                    u, Comment_project_id(pk)) = "False"
            \/ ~IsOwnerOrReadOnly_has_object_permission(
                    "PUT", u, comments[pk].author_user_id)
    THEN Answer("updateComment", "PUT", u, project_pk, issue_pk, pk,
                HTTP_403_FORBIDDEN, "none", <<>>, body)
    ELSE IF ~CommentSerializer_is_valid(description)
    THEN Answer("updateComment", "PUT", u, project_pk, issue_pk, pk,
                HTTP_400_BAD_REQUEST, "none", <<>>, body)
    ELSE /\ comments' = [comments EXCEPT
                ![pk].description = description,
                ![pk].author_user_id =
                    Serializer_read_only_field(
                        author_user_id, comments[pk].author_user_id),
                ![pk].issue_id =
                    Serializer_read_only_field(
                        issue_id, comments[pk].issue_id)]
         /\ pre' = Database
         /\ UNCHANGED calls
         /\ last' = Response("updateComment", "PUT", u, project_pk,
                             issue_pk, pk, HTTP_200_OK, "none", <<>>,
                             body)
         /\ UNCHANGED <<projects, contributors, issues, nextId>>

\* DELETE /projects/{project_pk}/issues/{issue_pk}/comments/{pk}/
DestroyComment(u, project_pk, issue_pk, pk) ==
    IF isProjectContributor_has_permission(u, project_pk)
           = "AttributeError"
    THEN Answer("destroyComment", "DELETE", u, project_pk, issue_pk, pk,
                HTTP_500_SERVER_ERROR, "AttributeError", <<>>, <<>>)
    ELSE IF isProjectContributor_has_permission(u, project_pk) = "False"
    THEN Answer("destroyComment", "DELETE", u, project_pk, issue_pk, pk,
                HTTP_403_FORBIDDEN, "none", <<>>, <<>>)
    ELSE IF pk \notin CommentViewSet_get_queryset(issue_pk)
    THEN Answer("destroyComment", "DELETE", u, project_pk, issue_pk, pk,
                HTTP_404_NOT_FOUND, "none", <<>>, <<>>)
    ELSE IF isProjectContributor_has_object_permission(
                    u, Comment_project_id(pk)) = "AttributeError"
    THEN Answer("destroyComment", "DELETE", u, project_pk, issue_pk, pk,
                HTTP_500_SERVER_ERROR, "AttributeError", <<>>, <<>>)
    ELSE IF \/ isProjectContributor_has_object_permission(
                    u, Comment_project_id(pk)) = "False"
            \/ ~IsOwnerOrReadOnly_has_object_permission(
                    "DELETE", u, comments[pk].author_user_id)
    THEN Answer("destroyComment", "DELETE", u, project_pk, issue_pk, pk,
                HTTP_403_FORBIDDEN, "none", <<>>, <<>>)
    ELSE /\ comments' = [c \in DOMAIN comments \ {pk} |-> comments[c]]
         /\ pre' = Database
         /\ UNCHANGED calls
         /\ last' = Response("destroyComment", "DELETE", u, project_pk,
                             issue_pk, pk, HTTP_204_NO_CONTENT, "none",
                             <<>>, <<>>)
         /\ UNCHANGED <<projects, contributors, issues, nextId>>

\* ------------------------------------------------- without credentials
\* A request that carries no credentials: request.user is AnonymousUser,
\* whose id is None.  On the project and member routes IsAuthenticated is
\* the first permission class and refuses it (project_pk is NULL here); on
\* the issue and comment routes isProjectContributor comes first: it
\* raises when a row of the project has no user, and refuses otherwise.
\* A refusal makes initial() raise NotAuthenticated.
AnonymousRequest(method, project_pk) ==
    IF /\ project_pk # NULL
       /\ isProjectContributor_has_permission(NULL, project_pk)
              = "AttributeError"
    THEN Answer("anonymous", method, NULL, project_pk, NULL, NULL,
                HTTP_500_SERVER_ERROR, "AttributeError", <<>>, <<>>)
    ELSE Answer("anonymous", method, NULL, project_pk, NULL, NULL,
                HTTP_401_UNAUTHORIZED, "none", <<>>, <<>>)

\* ------------------------------------------------------ disabled routes
\* APIView.dispatch runs initial(), and with it has_permission of every
\* permission class, before it picks the handler; a method the route does
\* not map is handled by http_method_not_allowed.

\* PATCH /projects/{pk}/ : ProjectViewSet.partial_update
PartialUpdateProject(u, pk) ==
    Answer("partialUpdateProject", "PATCH", u, NULL, NULL, pk,
           HTTP_405_METHOD_NOT_ALLOWED, "none", <<>>, <<>>)

\* GET and PATCH /projects/{project_pk}/users/{pk}/ : ContributorViewSet
\* has neither retrieve nor update
ContributorMethodNotAllowed(method, u, project_pk, pk) ==
    IF ~isProjectOwner_has_permission(u, project_pk)
    THEN Answer("contributorDetail", method, u, project_pk, NULL, pk,
                HTTP_403_FORBIDDEN, "none", <<>>, <<>>)
    ELSE Answer("contributorDetail", method, u, project_pk, NULL, pk,
                HTTP_405_METHOD_NOT_ALLOWED, "none", <<>>, <<>>)

\* GET /projects/{project_pk}/issues/{pk}/ : IssueViewSet has no retrieve
RetrieveIssue(u, project_pk, pk) ==
    IF isProjectContributor_has_permission(u, project_pk)
           = "AttributeError"
    THEN Answer("retrieveIssue", "GET", u, project_pk, NULL, pk,
                HTTP_500_SERVER_ERROR, "AttributeError", <<>>, <<>>)
    ELSE IF isProjectContributor_has_permission(u, project_pk) = "False"
    THEN Answer("retrieveIssue", "GET", u, project_pk, NULL, pk,
                HTTP_403_FORBIDDEN, "none", <<>>, <<>>)
    ELSE Answer("retrieveIssue", "GET", u, project_pk, NULL, pk,
                HTTP_405_METHOD_NOT_ALLOWED, "none", <<>>, <<>>)

\* PATCH /projects/{project_pk}/issues/{pk}/ : IssueViewSet.partial_update
PartialUpdateIssue(u, project_pk, pk) ==
    IF isProjectContributor_has_permission(u, project_pk)
           = "AttributeError"
    THEN Answer("partialUpdateIssue", "PATCH", u, project_pk, NULL, pk,
                HTTP_500_SERVER_ERROR, "AttributeError", <<>>, <<>>)
    ELSE IF isProjectContributor_has_permission(u, project_pk) = "False"
    THEN Answer("partialUpdateIssue", "PATCH", u, project_pk, NULL, pk,
                HTTP_403_FORBIDDEN, "none", <<>>, <<>>)
    ELSE Answer("partialUpdateIssue", "PATCH", u, project_pk, NULL, pk,
                HTTP_405_METHOD_NOT_ALLOWED, "none", <<>>, <<>>)

\* PATCH /projects/{project_pk}/issues/{issue_pk}/comments/{pk}/ :
\* CommentViewSet.partial_update
PartialUpdateComment(u, project_pk, issue_pk, pk) ==
    IF isProjectContributor_has_permission(u, project_pk)
           = "AttributeError"
    THEN Answer("partialUpdateComment", "PATCH", u, project_pk, issue_pk,
                pk, HTTP_500_SERVER_ERROR, "AttributeError", <<>>, <<>>)
    ELSE IF isProjectContributor_has_permission(u, project_pk) = "False"
    THEN Answer("partialUpdateComment", "PATCH", u, project_pk, issue_pk,
                pk, HTTP_403_FORBIDDEN, "none", <<>>, <<>>)
    ELSE Answer("partialUpdateComment", "PATCH", u, project_pk, issue_pk,
                pk, HTTP_405_METHOD_NOT_ALLOWED, "none", <<>>, <<>>)

\* ---------------------------------------------------------------- system
\* requests to ProjectViewSet, and a direct save of a project
ProjectRequests ==
    \/ \E u \in Users : ListProjects(u)
    \/ \E u \in Users, t \in TitleInputs : CreateProject(u, t, NULL)
    \/ \E u \in Users, pk \in ProjectPks : RetrieveProject(u, pk)
    \/ \E u \in Users, pk \in ProjectPks, t \in TitleInputs :
           UpdateProject(u, pk, t, NULL)
    \/ \E u \in Users, pk \in ProjectPks : DestroyProject(u, pk)
    \/ \E pk \in ProjectPks : SaveProject(pk)

\* requests to ContributorViewSet
ContributorRequests ==
    \/ \E u \in Users, p \in ProjectPks : ListContributors(u, p)
    \/ \E u \in Users, p \in ProjectPks,
          w \in MemberInputs \cup {NULL, BadUserId},
          perm \in PermissionInputs, r \in RoleInputs :
           CreateContributor(u, p, w, perm, r)
    \/ \E u \in Users, p \in ProjectPks, pk \in ContributorPks :
           DestroyContributor(u, p, pk)

\* requests to IssueViewSet
IssueRequests ==
    \/ \E u \in Users, p \in ProjectPks : ListIssues(u, p)
    \/ \E u \in Users, p \in ProjectPks, t \in IssueTitleInputs,
          a \in AssigneeInputs : CreateIssue(u, p, t, a, "", "", "")
    \/ \E u \in Users, p \in ProjectPks, pk \in IssuePks,
          t \in IssueTitleInputs, a \in AssigneeInputs :
           UpdateIssue(u, p, pk, t, a, NULL, "", "", "")
    \/ \E u \in Users, p \in ProjectPks, pk \in IssuePks :
           DestroyIssue(u, p, pk)

\* requests to CommentViewSet
CommentRequests ==
    \/ \E u \in Users, p \in ProjectPks, i \in IssuePks :
           ListComments(u, p, i)
    \/ \E u \in Users, p \in ProjectPks, i \in IssuePks,
          d \in DescriptionInputs : CreateComment(u, p, i, d)
    \/ \E u \in Users, p \in ProjectPks, i \in IssuePks, pk \in CommentPks :
           RetrieveComment(u, p, i, pk)
    \/ \E u \in Users, p \in ProjectPks, i \in IssuePks, pk \in CommentPks,
          d \in NewDescriptionInputs :
           UpdateComment(u, p, i, pk, d, NULL, NULL)
    \/ \E u \in Users, p \in ProjectPks, i \in IssuePks, pk \in CommentPks :
           DestroyComment(u, p, i, pk)

\* requests to the routes that are switched off
DisabledRequests ==
    \/ \E u \in Users, pk \in ProjectPks : PartialUpdateProject(u, pk)
    \/ \E m \in {"GET", "PATCH"}, u \in Users, p \in ProjectPks,
          pk \in ContributorPks : ContributorMethodNotAllowed(m, u, p, pk)
    \/ \E u \in Users, p \in ProjectPks, pk \in IssuePks :
           RetrieveIssue(u, p, pk)
    \/ \E u \in Users, p \in ProjectPks, pk \in IssuePks :
           PartialUpdateIssue(u, p, pk)
    \/ \E u \in Users, p \in ProjectPks, i \in IssuePks, pk \in CommentPks :
           PartialUpdateComment(u, p, i, pk)

\* requests without credentials
AnonymousRequests ==
    \E m \in {"GET", "POST", "PUT", "PATCH", "DELETE"},
       p \in ProjectPks \cup {NULL} : AnonymousRequest(m, p)

\* the requests that change which projects and memberships exist
MembershipSetup ==
    \/ \E u \in Users : CreateProject(u, "t1", NULL)
    \/ \E u \in Users, pk \in ProjectPks : DestroyProject(u, pk)
    \/ \E u \in Users, p \in ProjectPks, w \in MemberInputs :
           CreateContributor(u, p, w, CONTRIBUTOR, "dev")
    \/ \E u \in Users, p \in ProjectPks, pk \in ContributorPks :
           DestroyContributor(u, p, pk)

Next ==
    \/ ProjectRequests
    \/ ContributorRequests
    \/ IssueRequests
    \/ CommentRequests
    \/ DisabledRequests
    \/ AnonymousRequests

\* the whole API
Spec == Init /\ [][Next]_vars

\* projects and memberships: no issue or comment request writes a project
\* or a contributor row, so the projects and contributors reached here are
\* the ones Spec reaches
NextMembers ==
    \/ ProjectRequests
    \/ ContributorRequests
    \/ \E u \in Users, p \in ProjectPks : ListIssues(u, p)

SpecMembers == Init /\ [][NextMembers]_vars

\* issues, over every project and membership state
NextIssues ==
    \/ MembershipSetup
    \/ IssueRequests

SpecIssues == Init /\ [][NextIssues]_vars

\* comments, over every project, membership and issue state
NextComments ==
    \/ MembershipSetup
    \/ \E u \in Users, p \in ProjectPks, a \in AssigneeInputs :
           CreateIssue(u, p, "t1", a, "", "", "")
    \/ CommentRequests

SpecComments == Init /\ [][NextComments]_vars

\* the comment routes, over issues that keep the assignee the serializer
\* gives by default
NextCommentEdits ==
    \/ MembershipSetup
    \/ \E u \in Users, p \in ProjectPks :
           CreateIssue(u, p, "t1", NULL, "", "", "")
    \/ CommentRequests

SpecCommentEdits == Init /\ [][NextCommentEdits]_vars

\* the routes that are switched off, over every project and membership
\* state
NextDisabled ==
    \/ MembershipSetup
    \/ DisabledRequests

SpecDisabled == Init /\ [][NextDisabled]_vars

\* every route, with and without credentials, around one project: user 1
\* creates it (the users are interchangeable), the other user reaches it
\* through the membership routes, and the paths also name a project that
\* does not exist
NextRefusals ==
    \/ \E t \in {"t1", ""} : nextId.project = 1 /\ CreateProject(1, t, NULL)
    \/ \E u \in Users : ListProjects(u)
    \/ \E u \in Users, pk \in ProjectPks : RetrieveProject(u, pk)
    \/ \E u \in Users, pk \in ProjectPks, t \in {"t1", ""} :
           UpdateProject(u, pk, t, NULL)
    \/ \E u \in Users, pk \in ProjectPks : DestroyProject(u, pk)
    \/ \E u \in Users, p \in ProjectPks : ListContributors(u, p)
    \/ \E u \in Users, p \in ProjectPks, w \in {2, ExplicitNull, NULL, BadUserId} :
           \E perm \in IF w \in {ExplicitNull, NULL}
                        THEN {CONTRIBUTOR} ELSE PermissionInputs,
              r \in RoleInputs : CreateContributor(u, p, w, perm, r)
    \/ \E u \in Users, p \in ProjectPks, pk \in ContributorPks :
           DestroyContributor(u, p, pk)
    \/ \E u \in Users, p \in ProjectPks : ListIssues(u, p)
    \/ \E u \in Users, p \in ProjectPks, t \in IssueTitleInputs,
          a \in {NULL, 2} : CreateIssue(u, p, t, a, "", "", "")
    \/ \E u \in Users, p \in ProjectPks, pk \in IssuePks,
          t \in IssueTitleInputs, a \in {NULL, 2} :
           UpdateIssue(u, p, pk, t, a, NULL, "", "", "")
    \/ \E u \in Users, p \in ProjectPks, pk \in IssuePks :
           DestroyIssue(u, p, pk)
    \/ CommentRequests
    \/ DisabledRequests
    \/ AnonymousRequests

SpecRefusals == Init /\ [][NextRefusals]_vars

\* the requests that create a project, an issue or a comment, with a body
\* that names any author, over every project and membership state
NextAuthors ==
    \/ MembershipSetup
    \/ \E u \in Users, a \in AuthorInputs : CreateProject(u, "t1", a)
    \/ \E u \in Users, p \in ProjectPks :
           CreateIssue(u, p, "t1", NULL, "", "", "")
    \/ \E u \in Users, p \in ProjectPks, i \in IssuePks :
           CreateComment(u, p, i, "d1")

SpecAuthors == Init /\ [][NextAuthors]_vars

\* the deletions, over a database where two issues and two comments exist
\* and the memberships change
TreeIssuePks == {1, 2}
TreeCommentPks == {1, 2}
NextCascade ==
    \/ \E u \in Users, pk \in ProjectPks : DestroyProject(u, pk)
    \/ \E u \in Users, p \in ProjectPks, pk \in TreeIssuePks :
           DestroyIssue(u, p, pk)
    \/ \E u \in Users, p \in ProjectPks, i \in TreeIssuePks,
          pk \in TreeCommentPks : DestroyComment(u, p, i, pk)
    \/ \E u \in Users, p \in ProjectPks, w \in MemberInputs,
          perm \in PERMISSION_CHOICES, r \in RoleInputs :
           CreateContributor(u, p, w, perm, r)
    \/ \E u \in Users, p \in ProjectPks, pk \in ContributorPks :
           DestroyContributor(u, p, pk)

SpecCascade == InitTree /\ [][NextCascade]_vars

\* the nested lists, over a database where two issues and two comments
\* exist and the memberships change
NextLists ==
    \/ \E u \in Users, p \in ProjectPks : ListContributors(u, p)
    \/ \E u \in Users, p \in ProjectPks : ListIssues(u, p)
    \/ \E u \in Users, p \in ProjectPks, i \in TreeIssuePks :
           ListComments(u, p, i)
    \/ \E u \in Users, p \in ProjectPks, w \in MemberInputs,
          perm \in PERMISSION_CHOICES, r \in RoleInputs :
           CreateContributor(u, p, w, perm, r)
    \/ \E u \in Users, p \in ProjectPks, pk \in ContributorPks :
           DestroyContributor(u, p, pk)
    \/ \E u \in Users, pk \in ProjectPks : DestroyProject(u, pk)

SpecLists == InitTree /\ [][NextLists]_vars

\* the creation of issues with a tag, a status and a priority, by members
\* and by others
NextLabels ==
    \/ \E u \in Users : CreateProject(u, "t1", NULL)
    \/ \E u \in Users, p \in ProjectPks, w \in MemberInputs :
           CreateContributor(u, p, w, CONTRIBUTOR, "dev")
    \/ \E u \in Users, p \in ProjectPks, pk \in ContributorPks :
           DestroyContributor(u, p, pk)
    \/ \E u \in Users, p \in ProjectPks, tag \in TagInputs,
          st \in StatusInputs, pr \in PriorityInputs :
           CreateIssue(u, p, "t1", NULL, tag, st, pr)
    \/ \E u \in Users, p \in ProjectPks, pk \in IssuePks,
          tag \in TagInputs \cup {""}, st \in StatusInputs :
           UpdateIssue(u, p, pk, "t1", NULL, NULL, tag, st, "")

SpecLabels == Init /\ [][NextLabels]_vars

\* calls of Project.save that run at the same time: the creation of a
\* project and the save of a stored project, one statement at a time,
\* with the list of the members as the request that looks at the database
\* in between
NextSaves ==
    \/ \E r \in Calls, u \in Users : ProjectViewSet_create_begin(r, u, "t1")
    \/ \E r \in Calls, pk \in ProjectPks : Project_save_super(r, pk)
    \/ \E r \in Calls : Project_save_count(r)
    \/ \E r \in Calls : Project_save_create(r)
    \/ \E r \in Calls : Project_save_fail(r)
    \/ \E u \in Users, p \in ProjectPks : ListContributors(u, p)

SpecSaves == Init /\ [][NextSaves]_vars

\* the full updates, with a body that names an author, over a database
\* where two issues and two comments exist
NextUpdates ==
    \/ \E u \in Users, p \in ProjectPks, w \in MemberInputs :
           CreateContributor(u, p, w, CONTRIBUTOR, "dev")
    \/ \E u \in Users, pk \in ProjectPks, a \in AuthorInputs :
           UpdateProject(u, pk, "t1", a)
    \/ \E u \in Users, p \in ProjectPks, pk \in TreeIssuePks,
          a \in AuthorInputs :
           UpdateIssue(u, p, pk, "t1", NULL, a, "", "", "")
    \/ \E u \in Users, p \in ProjectPks, i \in TreeIssuePks,
          pk \in TreeCommentPks, a \in AuthorInputs,
          n \in TreeIssuePks \cup {NULL} :
           UpdateComment(u, p, i, pk, "d2", a, n)

SpecUpdates == InitTree /\ [][NextUpdates]_vars

\* the requests that set an assignee and the requests that add and remove
\* members, over the projects that users create
NextAssignees ==
    \/ \E u \in Users : CreateProject(u, "t1", NULL)
    \/ \E u \in Users, p \in ProjectPks, w \in MemberInputs :
           CreateContributor(u, p, w, CONTRIBUTOR, "dev")
    \/ \E u \in Users, p \in ProjectPks, pk \in ContributorPks :
           DestroyContributor(u, p, pk)
    \/ \E u \in Users, p \in ProjectPks, a \in AssigneeInputs :
           CreateIssue(u, p, "t1", a, "", "", "")
    \/ \E u \in Users, p \in ProjectPks, pk \in IssuePks,
          a \in AssigneeInputs :
           UpdateIssue(u, p, pk, "t1", a, NULL, "", "", "")

SpecAssignees == Init /\ [][NextAssignees]_vars

\* ================================================================ claims
\* The claims speak of the request just served (last), the database before
\* it (pre) and the database after it (the current state).
WasRows(p, u) ==
    {c \in DOMAIN pre.contributors :
        /\ pre.contributors[c].project_id = p
        /\ pre.contributors[c].user_id = u}
WasMember(u, p) == WasRows(p, u) # {}
WasOwner(u, p) ==
    \E c \in WasRows(p, u) : pre.contributors[c].permission = OWNER
WasContributorsOf(p) ==
    {c \in DOMAIN pre.contributors : pre.contributors[c].project_id = p}
OwnerRow(p, a) ==
    [project_id |-> p, user_id |-> a, permission |-> OWNER, role |-> "Owner"]

\* C1: right after a project is created by A there is exactly one
\* membership row for (project, A), with permission OWN and role 'Owner';
\* and every further save of a project (a direct save, or the save of a
\* full update) leaves exactly one row for (project, author), keeping the
\* row that was there.
C1_OwnerRowOnSave ==
    /\ (last.op = "createProject" /\ last.status = HTTP_201_CREATED) =>
          LET rows == ContributorRows(last.pk, last.user) IN
          /\ WasRows(last.pk, last.user) = {}
          /\ Cardinality(rows) = 1
          /\ \A c \in rows : contributors[c] = OwnerRow(last.pk, last.user)
    /\ (\/ last.op = "saveProject"
        \/ last.op = "updateProject" /\ last.status = HTTP_200_OK) =>
          LET p == last.pk
              a == pre.projects[p].author_user_id IN
          /\ Cardinality(ContributorRows(p, a)) = 1
          /\ \A c \in WasRows(p, a) :
                 c \in DOMAIN contributors
                 /\ contributors[c] = pre.contributors[c]
          /\ WasRows(p, a) = {} =>
                 \A c \in ContributorRows(p, a) :
                     contributors[c] = OwnerRow(p, a)

\* a project was saved again while its author had no row, and now has the
\* one OWN row
C1_Witness ==
    /\ last.op = "saveProject"
    /\ WasRows(last.pk, last.user) = {}
    /\ \E c \in ContributorRows(last.pk, last.user) :
           contributors[c] = OwnerRow(last.pk, last.user)

\* C2: there is never more than one membership row for a (project, user)
\* pair, and a request to add a member who already has a row in the project
\* ends in an IntegrityError and leaves the table as it was, with the one
\* row of the pair.
C2_UniqueMembership ==
    /\ \A p \in ProjectPks, u \in Users :
           Cardinality(ContributorRows(p, u)) <= 1
    /\ (/\ last.op = "createContributor"
        /\ last.body[1] \in Users
        /\ last.body[2] \in PERMISSION_CHOICES
        /\ WasMember(last.body[1], last.project_pk)) =>
           /\ last.exc = "IntegrityError"
           /\ contributors = pre.contributors
           /\ Cardinality(ContributorRows(last.project_pk, last.body[1])) = 1

\* a duplicate was refused
C2_Witness ==
    /\ last.op = "createContributor"
    /\ last.exc = "IntegrityError"
    /\ WasMember(last.body[1], last.project_pk)
    /\ contributors = pre.contributors

\* C3: listing or adding the members of an existing project succeeds only
\* for a principal with an OWN row in it; anybody else gets 403 and the
\* table is unchanged.
C3_OwnerOnlyListOrCreate ==
    (/\ last.op \in {"listContributors", "createContributor"}
     /\ last.project_pk \in DOMAIN pre.projects
     /\ ~WasOwner(last.user, last.project_pk)) =>
        /\ last.status = HTTP_403_FORBIDDEN
        /\ contributors = pre.contributors

\* C4: a membership is deleted only by a principal with an OWN row in the
\* project of the path; an id that is no row of that project gets 404, a
\* principal without an OWN row gets 403, and both leave the table as it was.
C4_RemoveMember ==
    last.op = "destroyContributor" =>
        LET u == last.user
            p == last.project_pk
            pk == last.pk IN
        /\ last.status = HTTP_204_NO_CONTENT =>
               /\ WasOwner(u, p)
               /\ pk \in WasContributorsOf(p)
               /\ contributors =
                      [c \in DOMAIN pre.contributors \ {pk} |->
                          pre.contributors[c]]
        /\ pk \notin WasContributorsOf(p) =>
               last.status = HTTP_404_NOT_FOUND
        /\ (pk \in WasContributorsOf(p) /\ ~WasOwner(u, p)) =>
               last.status = HTTP_403_FORBIDDEN
        /\ last.status \in {HTTP_403_FORBIDDEN, HTTP_404_NOT_FOUND} =>
               contributors = pre.contributors

\* C5: every existing project has at least one OWN row, since no request
\* deletes an owner's row.
C5_ProjectKeepsAnOwner ==
    \A p \in DOMAIN projects :
        \E c \in ContributorsOf(p) : contributors[c].permission = OWNER

\* C6: a project is updated or deleted only by its author; a member who is
\* not the author gets 403 and nothing changes, and the same member can
\* read the project and list its issues.
C6_AuthorOnlyMutation ==
    LET u == last.user
        pk == last.pk IN
    /\ (/\ last.op \in {"updateProject", "destroyProject"}
        /\ last.status \in {HTTP_200_OK, HTTP_204_NO_CONTENT}) =>
           u = pre.projects[pk].author_user_id
    /\ (/\ last.op \in {"updateProject", "destroyProject"}
        /\ pk \in DOMAIN pre.projects
        /\ WasMember(u, pk)
        /\ u # pre.projects[pk].author_user_id) =>
           /\ last.status = HTTP_403_FORBIDDEN
           /\ Database = pre
    /\ (/\ last.op = "retrieveProject"
        /\ pk \in DOMAIN pre.projects
        /\ WasMember(u, pk)) => last.status = HTTP_200_OK
    /\ (/\ last.op = "listIssues"
        /\ last.project_pk \in DOMAIN pre.projects
        /\ WasMember(u, last.project_pk)) => last.status = HTTP_200_OK

\* C7: a principal with no row in an existing project gets 404 on GET, PUT
\* and DELETE of the project, and the projects are unchanged.
C7_NonMemberGets404 ==
    (/\ last.op \in {"retrieveProject", "updateProject", "destroyProject"}
     /\ last.pk \in DOMAIN pre.projects
     /\ ~WasMember(last.user, last.pk)) =>
        /\ last.status = HTTP_404_NOT_FOUND
        /\ projects = pre.projects

\* a non-member asked to replace an existing project and got 404
C7_Witness ==
    /\ last.op = "updateProject"
    /\ last.status = HTTP_404_NOT_FOUND
    /\ last.pk \in DOMAIN projects
    /\ ~WasMember(last.user, last.pk)

\* C8: the issues of an existing project are listed, and an issue is
\* created in it, only for a principal with a row in the project; anybody
\* else gets 403 and no issue is created.
C8_MembersOnlyListOrCreateIssue ==
    (/\ last.op \in {"listIssues", "createIssue"}
     /\ last.project_pk \in DOMAIN pre.projects) =>
        LET u == last.user
            p == last.project_pk IN
        /\ last.status \in {HTTP_200_OK, HTTP_201_CREATED} => WasMember(u, p)
        /\ ~WasMember(u, p) =>
               /\ last.status = HTTP_403_FORBIDDEN
               /\ issues = pre.issues

\* C9: an issue is updated or deleted only by its author while the author
\* has a row in the issue's project; anybody else is refused, with 403 on
\* the issue's own route, and the issue is unchanged.
C9_AuthorAndMemberOnlyIssueMutation ==
    (/\ last.op \in {"updateIssue", "destroyIssue"}
     /\ last.pk \in DOMAIN pre.issues) =>
        LET u == last.user
            i == pre.issues[last.pk]
            allowed == u = i.author_user_id /\ WasMember(u, i.project_id) IN
        /\ last.status \in {HTTP_200_OK, HTTP_204_NO_CONTENT} => allowed
        /\ (~allowed /\ last.project_pk = i.project_id) =>
               last.status = HTTP_403_FORBIDDEN
        /\ ~allowed => issues = pre.issues /\ comments = pre.comments

\* C10: the comments of an issue are listed, read and created only for a
\* principal with a row in the issue's own project, whatever project the
\* path names.
C10_CommentsNeedIssueProjectMembership ==
    (/\ last.op \in {"listComments", "createComment", "retrieveComment"}
     /\ last.issue_pk \in DOMAIN pre.issues
     /\ ~WasMember(last.user, pre.issues[last.issue_pk].project_id)) =>
        /\ last.status \notin {HTTP_200_OK, HTTP_201_CREATED}
        /\ comments = pre.comments

\* C11: a comment is updated or deleted only by its author; anybody else,
\* the owner of the project and the author of the issue included, is
\* refused, with 403 on the comment's own route, and the comment is
\* unchanged.
C11_AuthorOnlyCommentMutation ==
    (/\ last.op \in {"updateComment", "destroyComment"}
     /\ last.pk \in DOMAIN pre.comments) =>
        LET u == last.user
            c == pre.comments[last.pk] IN
        /\ last.status \in {HTTP_200_OK, HTTP_204_NO_CONTENT} =>
               u = c.author_user_id
        /\ (u # c.author_user_id /\ last.issue_pk = c.issue_id) =>
               last.status = HTTP_403_FORBIDDEN
        /\ u # c.author_user_id => comments = pre.comments

\* C12: on every nested route (memberships, issues, comments) a path that
\* names a project or an issue that does not exist is answered 404, never
\* 403 and never an unhandled error.
C12_MissingParentIs404 ==
    (/\ last.op \in {"listContributors", "createContributor",
                     "destroyContributor", "listIssues", "createIssue",
                     "updateIssue", "destroyIssue", "listComments",
                     "createComment", "updateComment", "destroyComment"}
     /\ \/ last.project_pk \notin DOMAIN pre.projects
        \/ last.issue_pk # NULL /\ last.issue_pk \notin DOMAIN pre.issues) =>
        last.status = HTTP_404_NOT_FOUND

\* C13: listing the issues of, or creating an issue under, a project id
\* that names no project is answered 403 for every principal, and no issue
\* is created.
C13_IssuesOfMissingProjectAre403 ==
    (/\ last.op \in {"listIssues", "createIssue"}
     /\ last.project_pk \notin DOMAIN pre.projects) =>
        /\ last.status = HTTP_403_FORBIDDEN
        /\ issues = pre.issues

\* an issue was posted, by its former author and owner, to a project that
\* had been deleted
C13_Witness ==
    /\ last.op = "createIssue"
    /\ last.status = HTTP_403_FORBIDDEN
    /\ last.project_pk \notin DOMAIN projects
    /\ last.project_pk < nextId.project
    /\ \E c \in DOMAIN contributors :
           /\ contributors[c].project_id = NULL
           /\ contributors[c].user_id = last.user
           /\ contributors[c].permission = OWNER
    /\ IssueSerializer_is_valid(last.project_pk, last.body[1], NULL)

\* C15: the routes that are switched off (PATCH on a project, issue or
\* comment, GET on an issue, GET and PATCH on a membership) answer 405 to
\* every caller, whatever the caller is to the project, never 403 or 404,
\* and change nothing.
C15_DisabledRoutesAre405 ==
    (/\ last.op \in {"partialUpdateProject", "contributorDetail",
                     "retrieveIssue", "partialUpdateIssue",
                     "partialUpdateComment"}
     /\ last.project_pk # NULL => last.project_pk \in DOMAIN pre.projects) =>
        /\ last.status = HTTP_405_METHOD_NOT_ALLOWED
        /\ Database = pre

\* C14: a request that is refused (401, 403, 404, 405 or 400) changes
\* nothing: the projects, memberships, issues and comments, with all their
\* fields, are the ones there were before the request.
C14_RefusalChangesNothing ==
    last.status \in {HTTP_400_BAD_REQUEST, HTTP_401_UNAUTHORIZED,
                     HTTP_403_FORBIDDEN, HTTP_404_NOT_FOUND,
                     HTTP_405_METHOD_NOT_ALLOWED} =>
        Database = pre

\* the owner of a project asked to add a member with a permission that is
\* no choice, and was refused
C14_Witness ==
    /\ last.op = "createContributor"
    /\ last.status = HTTP_400_BAD_REQUEST
    /\ last.body[2] \notin PERMISSION_CHOICES
    /\ last.body[1] \in Users
    /\ WasOwner(last.user, last.project_pk)
    /\ Database = pre

\* C16: an issue is created or updated with an assignee named in the
\* request only if that user has a row in the project; a request that
\* passes the permission checks and names anybody else is refused with 400,
\* and no issue is created or changed.
C16_AssigneeMustBeMember ==
    (/\ last.op \in {"createIssue", "updateIssue"}
     /\ last.body[2] # NULL) =>
        LET u == last.user
            p == last.project_pk
            a == last.body[2]
            permitted ==
                /\ WasMember(u, p)
                /\ last.op = "updateIssue" =>
                       /\ last.pk \in DOMAIN pre.issues
                       /\ pre.issues[last.pk].project_id = p
                       /\ pre.issues[last.pk].author_user_id = u IN
        /\ last.status \in {HTTP_200_OK, HTTP_201_CREATED} =>
               /\ WasMember(a, p)
               /\ issues[last.pk].assignee_user_id = a
        /\ (permitted /\ ~WasMember(a, p)) =>
               /\ last.status = HTTP_400_BAD_REQUEST
               /\ issues = pre.issues

\* C17: an issue created without an assignee in the request is stored
\* once, with the requesting principal as its author and as its assignee.
C17_DefaultAssigneeIsRequester ==
    (/\ last.op = "createIssue"
     /\ last.status = HTTP_201_CREATED
     /\ last.body[2] = NULL) =>
        /\ last.pk \notin DOMAIN pre.issues
        /\ DOMAIN issues = DOMAIN pre.issues \cup {last.pk}
        /\ \A i \in DOMAIN pre.issues : issues[i] = pre.issues[i]
        /\ issues[last.pk].author_user_id = last.user
        /\ issues[last.pk].assignee_user_id = last.user

\* a member who is not the author of the project created an issue without
\* naming an assignee
C17_Witness ==
    /\ last.op = "createIssue"
    /\ last.status = HTTP_201_CREATED
    /\ last.body[2] = NULL
    /\ last.pk \in DOMAIN issues
    /\ projects[last.project_pk].author_user_id # last.user
    /\ issues[last.pk].assignee_user_id = last.user

\* C18: a project, an issue or a comment that is created has the
\* requesting principal as its author, whatever author the body names, and
\* the parent named in the path.
C18_AuthorIsRequester ==
    /\ (last.op = "createProject" /\ last.status = HTTP_201_CREATED) =>
           /\ last.pk \notin DOMAIN pre.projects
           /\ projects[last.pk].author_user_id = last.user
    /\ (last.op = "createIssue" /\ last.status = HTTP_201_CREATED) =>
           /\ last.pk \notin DOMAIN pre.issues
           /\ issues[last.pk].author_user_id = last.user
           /\ issues[last.pk].project_id = last.project_pk
    /\ (last.op = "createComment" /\ last.status = HTTP_201_CREATED) =>
           /\ last.pk \notin DOMAIN pre.comments
           /\ comments[last.pk].author_user_id = last.user
           /\ comments[last.pk].issue_id = last.issue_pk

\* a project was created with a body that names another user as its author
C18_Witness ==
    /\ last.op = "createProject"
    /\ last.status = HTTP_201_CREATED
    /\ last.body[2] \in Users
    /\ last.body[2] # last.user
    /\ projects[last.pk].author_user_id = last.user

\* C19: a request to add a member to an existing project with a permission
\* that is neither 'OWN' nor 'CTR', or with a user_id that names no user,
\* is refused with 400, and the memberships are the ones there were.
C19_BadMemberBodyIs400 ==
    (/\ last.op = "createContributor"
     /\ last.project_pk \in DOMAIN pre.projects
     /\ \/ last.body[2] \notin PERMISSION_CHOICES
        \/ last.body[1] \notin Users) =>
        /\ last.status = HTTP_400_BAD_REQUEST
        /\ contributors = pre.contributors

\* C20: no comment has an empty description; a request to create a
\* comment, or to replace one, with an empty description never succeeds and
\* leaves the comments as they were, and when it passes the permission
\* checks it is refused with 400.
C20_DescriptionNotEmpty ==
    /\ \A c \in DOMAIN comments : comments[c].description # ""
    /\ (/\ last.op \in {"createComment", "updateComment"}
        /\ last.body[1] = "") =>
           LET u == last.user
               permitted ==
                   /\ WasMember(u, last.project_pk)
                   /\ last.op = "updateComment" =>
                          /\ last.pk \in DOMAIN pre.comments
                          /\ pre.comments[last.pk].issue_id = last.issue_pk
                          /\ pre.comments[last.pk].author_user_id = u
                          /\ WasMember(u,
                                 pre.issues[last.issue_pk].project_id) IN
           /\ last.status \notin {HTTP_200_OK, HTTP_201_CREATED}
           /\ comments = pre.comments
           /\ permitted => last.status = HTTP_400_BAD_REQUEST

\* C21: a deletion takes the subtree with it and nothing else: after a
\* project is deleted its issues and their comments are gone, after an
\* issue is deleted its comments are gone, and the other issues and
\* comments are the ones there were; no issue is left without its project
\* and no comment without its issue.
C21_DeleteCascades ==
    /\ \A i \in DOMAIN issues : issues[i].project_id \in DOMAIN projects
    /\ \A c \in DOMAIN comments : comments[c].issue_id \in DOMAIN issues
    /\ (last.op = "destroyProject" /\ last.status = HTTP_204_NO_CONTENT) =>
           LET gone == {i \in DOMAIN pre.issues :
                            pre.issues[i].project_id = last.pk} IN
           /\ issues = [i \in DOMAIN pre.issues \ gone |-> pre.issues[i]]
           /\ comments =
                  [c \in {x \in DOMAIN pre.comments :
                              pre.comments[x].issue_id \notin gone}
                      |-> pre.comments[c]]
    /\ (last.op = "destroyIssue" /\ last.status = HTTP_204_NO_CONTENT) =>
           /\ issues =
                  [i \in DOMAIN pre.issues \ {last.pk} |-> pre.issues[i]]
           /\ comments =
                  [c \in {x \in DOMAIN pre.comments :
                              pre.comments[x].issue_id # last.pk}
                      |-> pre.comments[c]]
           /\ projects = pre.projects

\* an issue that carried a comment was deleted while another issue carried
\* one too
C21_Witness ==
    /\ last.op = "destroyIssue"
    /\ last.status = HTTP_204_NO_CONTENT
    /\ \E c \in DOMAIN pre.comments : pre.comments[c].issue_id = last.pk
    /\ DOMAIN comments # {}
    /\ DOMAIN issues # {}

\* C22: the list of projects a principal gets holds the projects in which
\* the principal has a row, and no other, each once, highest id first.
C22_ProjectListIsMemberships ==
    last.op = "listProjects" =>
        LET r == last.result IN
        /\ last.status = HTTP_200_OK
        /\ {r[k] : k \in 1..Len(r)} =
               {p \in DOMAIN pre.projects : WasMember(last.user, p)}
        /\ \A j, k \in 1..Len(r) : j < k => r[j] > r[k]

\* a principal listed two projects, one of them somebody else's, joined as
\* a contributor
C22_Witness ==
    /\ last.op = "listProjects"
    /\ Len(last.result) = 2
    /\ \E k \in 1..2 :
           /\ projects[last.result[k]].author_user_id # last.user
           /\ ~WasOwner(last.user, last.result[k])

\* C23: a nested list holds the children of the parent in the path and
\* nothing else: the member list of a project names a user exactly when
\* the user has a row in the project, the issue list of a project holds
\* the issues of that project, the comment list of an issue holds the
\* comments of that issue, each row once.
C23_NestedListsHoldTheChildren ==
    LET r == last.result
        listed == {r[k] : k \in 1..Len(r)} IN
    /\ (last.op = "listContributors" /\ last.status = HTTP_200_OK) =>
           /\ listed = WasContributorsOf(last.project_pk)
           /\ Len(r) = Cardinality(listed)
           /\ \A u \in Users :
                  WasMember(u, last.project_pk) <=>
                      \E c \in listed : pre.contributors[c].user_id = u
    /\ (last.op = "listIssues" /\ last.status = HTTP_200_OK) =>
           /\ listed = {i \in DOMAIN pre.issues :
                            pre.issues[i].project_id = last.project_pk}
           /\ Len(r) = Cardinality(listed)
    /\ (last.op = "listComments" /\ last.status = HTTP_200_OK) =>
           /\ listed = {c \in DOMAIN pre.comments :
                            pre.comments[c].issue_id = last.issue_pk}
           /\ Len(r) = Cardinality(listed)

\* the issues of a project were listed while the other project had an
\* issue too
C23_Witness ==
    /\ last.op = "listIssues"
    /\ last.status = HTTP_200_OK
    /\ Len(last.result) = 1
    /\ \E i \in DOMAIN issues :
           /\ issues[i].project_id # last.project_pk
           /\ issues[i].project_id \in DOMAIN projects

\* C24: a member's request to create an issue with a tag, a status or a
\* priority that is not one of the values the API names for the field is
\* refused with 400, and no issue is created.
C24_IssueLabelsAreChoices ==
    (/\ last.op = "createIssue"
     /\ WasMember(last.user, last.project_pk)
     /\ \/ last.body[3] \notin {"bug", "improvement", "task"}
        \/ last.body[4] \notin {"todo", "in progress", "done"}
        \/ last.body[5] \notin {"low", "medium", "high"}) =>
        /\ last.status = HTTP_400_BAD_REQUEST
        /\ issues = pre.issues

\* C25: the creation of a project writes the project row and the OWN row
\* of its author together or not at all: whatever fails and however the
\* calls interleave, a project that no call is still saving has a
\* membership row of its author.
C25_ProjectAndOwnerRowTogether ==
    \A p \in DOMAIN projects :
        (\A r \in Calls : calls[r].project_id # p) =>
            ContributorRows(p, projects[p].author_user_id) # {}

\* C26: when two saves of a project whose author has no row run at the
\* same time, one row of the pair results and no save fails: the second
\* insert is ignored, it is not an error.
C26_ConcurrentSavesNeverFail ==
    /\ \A p \in DOMAIN projects :
           Cardinality(ContributorRows(p, projects[p].author_user_id)) <= 1
    /\ last.op \in {"createProject", "saveProject"} =>
           last.exc # "IntegrityError"

\* C27: the deletion of a project keeps its membership rows and clears
\* their project: every row names a stored project or none, and a user
\* whose only rows name no project is let into no project (no list of the
\* issues of any project: the request is refused, or fails where the
\* membership check itself fails; 404 on any project).
WasOrphanOnly(u, p) ==
    /\ ~WasMember(u, p)
    /\ \E c \in DOMAIN pre.contributors :
           /\ pre.contributors[c].user_id = u
           /\ pre.contributors[c].project_id = NULL

C27_MembershipsOutliveTheirProject ==
    /\ \A c \in DOMAIN contributors :
           contributors[c].project_id \in DOMAIN projects \cup {NULL}
    /\ (last.op = "destroyProject" /\ last.status = HTTP_204_NO_CONTENT) =>
           contributors =
               [c \in DOMAIN pre.contributors |->
                   IF pre.contributors[c].project_id = last.pk
                   THEN [pre.contributors[c] EXCEPT !.project_id = NULL]
                   ELSE pre.contributors[c]]
    /\ (last.op = "listIssues" /\ WasOrphanOnly(last.user, last.project_pk))
           => /\ last.status \in {HTTP_403_FORBIDDEN, HTTP_500_SERVER_ERROR}
              /\ last.result = <<>>
    /\ (/\ last.op \in {"retrieveProject", "updateProject", "destroyProject"}
        /\ WasOrphanOnly(last.user, last.pk)) =>
           /\ last.status = HTTP_404_NOT_FOUND
           /\ projects = pre.projects
    /\ (last.op = "listProjects" /\ last.status = HTTP_200_OK) =>
           \A i \in 1..Len(last.result) : WasMember(last.user, last.result[i])

C27_Witness ==
    /\ last.op = "destroyProject"
    /\ last.status = HTTP_204_NO_CONTENT
    /\ Cardinality(WasContributorsOf(last.pk)) = 2
    /\ \A c \in WasContributorsOf(last.pk) :
           contributors[c].project_id = NULL
    /\ DOMAIN projects # {}

\* C28: an issue is updated or deleted only under the path of its own
\* project: PUT or DELETE /projects/{P}/issues/{I} by a member of P, for a
\* stored issue I of another project, is answered 404 and changes no
\* issue; and no request moves a stored issue to another project.
C28_IssueOnlyUnderItsProject ==
    /\ (/\ last.op \in {"updateIssue", "destroyIssue"}
        /\ last.pk \in DOMAIN pre.issues
        /\ pre.issues[last.pk].project_id # last.project_pk
        /\ WasMember(last.user, last.project_pk)) =>
           /\ last.status = HTTP_404_NOT_FOUND
           /\ issues = pre.issues
    /\ \A i \in DOMAIN issues \cap DOMAIN pre.issues :
           issues[i].project_id = pre.issues[i].project_id

\* C29: a full update answered 200 leaves the fields that the server
\* assigns as they were, whatever the body names: the author and the id of
\* a project, the author, the project and the id of an issue, the author
\* and the issue of a comment.
C29_UpdateKeepsServerFields ==
    /\ (last.op = "updateProject" /\ last.status = HTTP_200_OK) =>
           /\ DOMAIN projects = DOMAIN pre.projects
           /\ \A p \in DOMAIN projects :
                  projects[p].author_user_id =
                      pre.projects[p].author_user_id
    /\ (last.op = "updateIssue" /\ last.status = HTTP_200_OK) =>
           /\ DOMAIN issues = DOMAIN pre.issues
           /\ \A i \in DOMAIN issues :
                  /\ issues[i].author_user_id = pre.issues[i].author_user_id
                  /\ issues[i].project_id = pre.issues[i].project_id
    /\ (last.op = "updateComment" /\ last.status = HTTP_200_OK) =>
           /\ DOMAIN comments = DOMAIN pre.comments
           /\ \A c \in DOMAIN comments :
                  /\ comments[c].author_user_id =
                         pre.comments[c].author_user_id
                  /\ comments[c].issue_id = pre.comments[c].issue_id

C29_Witness ==
    /\ last.op = "updateComment"
    /\ last.status = HTTP_200_OK
    /\ last.body[2] \in Users \ {pre.comments[last.pk].author_user_id}
    /\ last.body[3] \in DOMAIN issues \ {pre.comments[last.pk].issue_id}
    /\ comments[last.pk].author_user_id = last.user
    /\ comments[last.pk].description # pre.comments[last.pk].description

\* C30: in every state reached by requests that create and update issues
\* and add and remove members, the assignee of every stored issue has a
\* membership row in the project of the issue.
C30_AssigneeStaysMember ==
    \A i \in DOMAIN issues :
        ContributorRows(issues[i].project_id, issues[i].assignee_user_id)
            # {}

====
